---- MODULE Spec2Model ----
(***************************************************************************)
(* Model of PyPoE/cli/exporter/wiki/parsers/lua.py: the field projection   *)
(* (GenericLuaParser._copy_from_keys), the quest/vendor reward merges      *)
(* (QuestRewardReader), the pre-sort (_write_lua) and the table serializer *)
(* (lua_formatter).                                                        *)
(*                                                                         *)
(* Text is a sequence of character codes, so that joining, splitting,      *)
(* escaping and key concatenation are computed, not assumed.               *)
(* An OrderedDict is a sequence of [k, v] pairs with distinct k, in        *)
(* insertion order.                                                        *)
(***************************************************************************)
EXTENDS Integers, Sequences, FiniteSets, TLC

VARIABLES
    out_data,   \* _copy_from_keys: the list of Output Records being built
    call,       \* the last _copy_from_keys call: its arguments and the list before it
    outdata,    \* the records given to _write_lua / lua_formatter
    given,      \* outdata as it was given, before _write_lua sorted it
    out,        \* lua_formatter: the list of chunks of the last call
    texts,      \* the texts lua_formatter has returned, in call order
    compress,   \* read_*_rewards: the dict from identity key to record
    merged,     \* compress as the row loop left it, before the classes pass
    rows,       \* the rows of the reward table read so far, in table order
    pc,         \* read_*_rewards: "rows", "done", or "raised" when it raised
    warnings,   \* the warnings.warn calls made, in order
    rarity,     \* read_quest_rewards: the local variable rarity
    language    \* config.get_option('language')

projVars == <<out_data, call>>
fmtVars == <<outdata, given, out, texts>>
exportVars == <<compress, merged, rows, pc, warnings, rarity, language>>
vars == <<out_data, call, outdata, given, out, texts,
          compress, merged, rows, pc, warnings, rarity, language>>

\* all sequences over S of length at most n
SeqsUpTo(S, n) == UNION {[1..m -> S] : m \in 0..n}

----------------------------------------------------------------------------
(* Values flowing through the records: None, int, float, str, list.        *)
(* A float is held in hundredths (250/100 = 2.5 is [t |-> "float",         *)
(* h |-> 250]); a str is its sequence of character codes.                  *)

NoneV == [t |-> "none"]
IntV(n) == [t |-> "int", n |-> n]
FloatV(h) == [t |-> "float", h |-> h]
TextV(s) == [t |-> "text", s |-> s]
ListV(l) == [t |-> "list", l |-> l]

EmptyText == TextV(<< >>)

----------------------------------------------------------------------------
(* OrderedDict                                                             *)

DictKeys(d) == [i \in 1..Len(d) |-> d[i].k]

Has(d, key) == \E i \in 1..Len(d) : d[i].k = key

Get(d, key) == d[CHOOSE i \in 1..Len(d) : d[i].k = key].v

\* d[key] = value: an existing key keeps its position, a new key goes last
DictSet(d, key, value) ==
    IF Has(d, key)
    THEN [i \in 1..Len(d) |-> IF d[i].k = key THEN [k |-> key, v |-> value] ELSE d[i]]
    ELSE Append(d, [k |-> key, v |-> value])

\* del d[key]
DictDel(d, key) == SelectSeq(d, LAMBDA e : e.k # key)

\* d.update(e)
RECURSIVE DictUpdate(_, _)
DictUpdate(d, e) ==
    IF e = << >> THEN d
    ELSE DictUpdate(DictSet(d, e[1].k, e[1].v), Tail(e))

----------------------------------------------------------------------------
(* Text: sequences of character codes                                      *)

Quote == 34         \* '"'
Backslash == 92     \* '\\'

\* ''.join(parts)
RECURSIVE Join(_)
Join(parts) == IF parts = << >> THEN << >> ELSE parts[1] \o Join(Tail(parts))

\* sep.join(parts)
RECURSIVE JoinWith(_, _)
JoinWith(sep, parts) ==
    IF parts = << >> THEN << >>
    ELSE IF Len(parts) = 1 THEN parts[1]
    ELSE parts[1] \o sep \o JoinWith(sep, Tail(parts))

\* s.replace(old, new) for a one-character old
RECURSIVE Replace(_, _, _)
Replace(s, old, new) ==
    IF s = << >> THEN << >>
    ELSE (IF s[1] = old THEN new ELSE <<s[1]>>) \o Replace(Tail(s), old, new)

\* str(n) for an int
RECURSIVE NatStr(_)
NatStr(n) == IF n < 10 THEN <<48 + n>> ELSE NatStr(n \div 10) \o <<48 + (n % 10)>>
IntStr(n) == IF n < 0 THEN <<45>> \o NatStr(0 - n) ELSE NatStr(n)

\* str(x) for a float held in hundredths: 250 is '2.5', 5 is '0.05', 200 is '2.0'
FloatStr(h) ==
    LET a == IF h < 0 THEN 0 - h ELSE h
        frac == a % 100
    IN  (IF h < 0 THEN <<45>> ELSE << >>) \o NatStr(a \div 100) \o <<46>>
        \o (IF frac % 10 = 0 THEN <<48 + (frac \div 10)>>
            ELSE <<48 + (frac \div 10), 48 + (frac % 10)>>)

\* '%s' % v
Str(v) ==
    CASE v.t = "int" -> IntStr(v.n)
      [] v.t = "float" -> FloatStr(v.h)
      [] v.t = "text" -> v.s
      [] v.t = "none" -> <<78, 111, 110, 101>>

\* the characters of the field names
KeyChars ==
    [ id |-> <<105, 100>>,
      name |-> <<110, 97, 109, 101>>,
      tags |-> <<116, 97, 103, 115>>,
      quest |-> <<113, 117, 101, 115, 116>>,
      quest_id |-> <<113, 117, 101, 115, 116, 95, 105, 100>>,
      act |-> <<97, 99, 116>>,
      classes |-> <<99, 108, 97, 115, 115, 101, 115>>,
      reward |-> <<114, 101, 119, 97, 114, 100>>,
      npc |-> <<110, 112, 99>>,
      sockets |-> <<115, 111, 99, 107, 101, 116, 115>>,
      item_level |-> <<105, 116, 101, 109, 95, 108, 101, 118, 101, 108>>,
      rarity |-> <<114, 97, 114, 105, 116, 121>>,
      level |-> <<108, 101, 118, 101, 108>>,
      armour_multiplier |-> <<97, 114, 109, 111, 117, 114, 95, 109, 117, 108, 116, 105, 112, 108, 105, 101, 114>> ]
KeyText(k) == KeyChars[k]

----------------------------------------------------------------------------
(* lua_formatter                                                           *)

TableOpen == <<108, 111, 99, 97, 108, 32, 100, 97, 116, 97, 32, 61, 32, 123, 10>>     \* 'local data = {\n'
BlockOpen == <<9, 123, 10>>                       \* '\t{\n'
BlockClose == <<9, 125, 44, 10>>                 \* '\t},\n'
TableClose == <<10, 125>>                         \* '\n}'
Newline == <<10>>                                 \* '\n'
ReturnData == <<114, 101, 116, 117, 114, 110, 32, 100, 97, 116, 97>>    \* 'return data'
EntryEnd == <<44, 10>>                            \* ',\n'

\* line 75: a list element is unquoted when it is an int
IsNumberElement(v) == v.t = "int"

\* lines 74-76
FormatElement(v) ==
    IF IsNumberElement(v) THEN Str(v) ELSE <<Quote>> \o Str(v) \o <<Quote>>

\* line 81: value.replace('"', '\\"')
EscapeNothing(s) == s
EscapeQuotes(s) == Replace(s, Quote, <<Backslash, Quote>>)

\* lines 70-81: the entry of one key
FormatEntry(key, value) ==
    IF value.t \in {"int", "float"}
    THEN <<9, 9>> \o KeyText(key) \o <<61>> \o Str(value) \o EntryEnd
    ELSE IF value.t = "list"
    THEN <<9, 9>> \o KeyText(key) \o <<61, 123>>
         \o JoinWith(<<44, 32>>, [i \in 1..Len(value.l) |-> FormatElement(value.l[i])])
         \o <<125>> \o EntryEnd
    ELSE <<9, 9>> \o KeyText(key) \o <<61, Quote>> \o EscapeQuotes(value.s)
         \o <<Quote>> \o EntryEnd

\* lines 68-82: the chunks appended for one record
BlockUnclosed(data) ==
    <<BlockOpen>> \o [i \in 1..Len(data) |-> FormatEntry(data[i].k, data[i].v)]
    \o (IF data = << >> THEN << >> ELSE <<BlockClose>>)
FormatBlock(data) ==
    <<BlockOpen>> \o [i \in 1..Len(data) |-> FormatEntry(data[i].k, data[i].v)]
    \o <<BlockClose>>

\* lines 65-85: the list out
RECURSIVE FormatBlocks(_)
FormatBlocks(records) ==
    IF records = << >> THEN << >>
    ELSE FormatBlock(records[1]) \o FormatBlocks(Tail(records))

FormatterOut(records) ==
    <<TableOpen>> \o FormatBlocks(records) \o <<TableClose, Newline, ReturnData>>

\* line 87
lua_formatter(records) == Join(FormatterOut(records))

----------------------------------------------------------------------------
(* GenericLuaParser._copy_from_keys                                        *)

\* the optional 'value' entry of a field spec: absent, or lambda v: v/100
ApplyValue(f, value) ==
    IF f = "div100" THEN FloatV(value.n) ELSE value

\* the value test of line 100
SkippedNoneOnly(value) == value = NoneV
Skipped(value) == value = NoneV \/ value = EmptyText

\* lines 96-103: the record built from one row
RECURSIVE CopyRow(_, _, _)
CopyRow(row, keys, copyrow) ==
    IF keys = << >> THEN copyrow
    ELSE LET k == keys[1].src
             copy_data == keys[1]
             value == row[k]
         IN  CopyRow(row, Tail(keys),
                     IF ~Skipped(value)
                     THEN DictSet(copyrow, copy_data.key,
                                  ApplyValue(copy_data.value, value))
                     ELSE copyrow)

\* lines 105-111: index is -1 for None; out_data[index] raises IndexError
\* when index is not a position of the list (0-based), and the record is
\* appended
StoreReplace(lst, copyrow, index) ==
    IF index # -1 /\ index < Len(lst)
    THEN [lst EXCEPT ![index + 1] = copyrow]
    ELSE Append(lst, copyrow)
StoreNoAppend(lst, copyrow, index) ==
    IF index # -1 /\ index < Len(lst)
    THEN [lst EXCEPT ![index + 1] = DictUpdate(lst[index + 1], copyrow)]
    ELSE IF index = -1 THEN Append(lst, copyrow) ELSE lst
StoreRow(lst, copyrow, index) ==
    IF index # -1 /\ index < Len(lst)
    THEN [lst EXCEPT ![index + 1] = DictUpdate(lst[index + 1], copyrow)]
    ELSE Append(lst, copyrow)

copy_from_keys(row, keys, lst, index) ==
    StoreRow(lst, CopyRow(row, keys, << >>), index)

----------------------------------------------------------------------------
(* The projection driven by its callers (MonsterParser.main and the other  *)
(* parsers): any row, any field spec table, with or without an index.      *)
(* The tables have distinct output keys, as every table of the source has; *)
(* two tables may share an output key.                                     *)

MaxOut == 2

ProjRows ==
    { [Level |-> IntV(1), Armour |-> IntV(250)],
      [Level |-> EmptyText, Armour |-> IntV(250)],
      [Level |-> IntV(1), Armour |-> NoneV],
      [Level |-> NoneV, Armour |-> NoneV] }

SpecLevel == [src |-> "Level", key |-> "level", value |-> "absent"]
SpecArmourAsLevel == [src |-> "Armour", key |-> "level", value |-> "absent"]
SpecArmour == [src |-> "Armour", key |-> "armour_multiplier", value |-> "div100"]

ProjKeys ==
    { <<SpecLevel>>, <<SpecArmourAsLevel>>, <<SpecArmour>>,
      <<SpecLevel, SpecArmour>> }

\* -1 stands for index=None
ProjIndexes == -1 .. MaxOut

NoCall == [row |-> [Level |-> NoneV, Armour |-> NoneV], keys |-> << >>,
           index |-> -1, pre |-> << >>, made |-> FALSE]

\* no export running
NoExport ==
    /\ compress = << >> /\ merged = << >> /\ rows = << >> /\ pc = "idle"
    /\ warnings = << >> /\ rarity = NoneV /\ language = "English"

InitProj ==
    /\ out_data = << >>
    /\ call = NoCall
    /\ outdata = << >> /\ given = << >> /\ out = << >> /\ texts = << >>
    /\ NoExport

CopyFromKeys(row, keys, index) ==
    /\ Len(copy_from_keys(row, keys, out_data, index)) <= MaxOut
    /\ out_data' = copy_from_keys(row, keys, out_data, index)
    /\ call' = [row |-> row, keys |-> keys, index |-> index,
                pre |-> out_data, made |-> TRUE]
    /\ UNCHANGED <<fmtVars, exportVars>>

NextProj ==
    \E row \in ProjRows, keys \in ProjKeys, index \in ProjIndexes :
        CopyFromKeys(row, keys, index)

SpecProj == InitProj /\ [][NextProj]_vars

----------------------------------------------------------------------------
(* Claims about the projection, stated on the last call.                   *)

\* the call addressed an existing record (update) / did not (append)
CallUpdates == call.index # -1 /\ call.index < Len(call.pre)
CallTarget == IF CallUpdates THEN call.index + 1 ELSE Len(out_data)
CallPreRecord == call.pre[call.index + 1]

\* spec i of the call reads None or '' / reads something else
SourceEmpty(i) ==
    \/ call.row[call.keys[i].src] = [t |-> "none"]
    \/ call.row[call.keys[i].src] = [t |-> "text", s |-> << >>]
Writes(i) == ~SourceEmpty(i)
WrittenValue(i) ==
    IF call.keys[i].value = "div100"
    THEN [t |-> "float", h |-> call.row[call.keys[i].src].n]
    ELSE call.row[call.keys[i].src]
\* the last spec of the call that writes output key k, 0 if none does
LastWriter(k) ==
    LET W == {i \in 1..Len(call.keys) : call.keys[i].key = k /\ Writes(i)}
    IN  IF W = {} THEN 0 ELSE CHOOSE i \in W : \A j \in W : j <= i

\* C1 as stated: after any call, the record appended or updated holds no
\* output key of a field spec whose source value is None or ''.
C1_SkippedKeyAbsent ==
    call.made =>
        \A i \in 1..Len(call.keys) :
            SourceEmpty(i) => ~Has(out_data[CallTarget], call.keys[i].key)

\* C1 amended: a field spec whose source value is None or '' writes nothing:
\* unless another spec of the same call writes its output key, an appended
\* record lacks the key, and an updated record holds it exactly when it held
\* it before the call, with the value it had.
C1_SkippedKeyNotWritten ==
    call.made =>
        \A i \in 1..Len(call.keys) :
            (SourceEmpty(i) /\ LastWriter(call.keys[i].key) = 0) =>
                IF CallUpdates /\ Has(CallPreRecord, call.keys[i].key)
                THEN /\ Has(out_data[CallTarget], call.keys[i].key)
                     /\ Get(out_data[CallTarget], call.keys[i].key)
                            = Get(CallPreRecord, call.keys[i].key)
                ELSE ~Has(out_data[CallTarget], call.keys[i].key)

C1_Witness ==
    /\ call.made
    /\ \E i \in 1..Len(call.keys) :
          /\ call.row[call.keys[i].src] = [t |-> "text", s |-> << >>]
          /\ LastWriter(call.keys[i].key) = 0
          /\ CallUpdates
          /\ Has(CallPreRecord, call.keys[i].key)

\* C2: a call whose index addresses an existing record keeps the length of
\* the list and every other record, and the addressed record keeps every key
\* it held: a key written by the call carries the new value, every other key
\* its previous value.
C2_UpdateMerges ==
    (call.made /\ CallUpdates) =>
        /\ Len(out_data) = Len(call.pre)
        /\ \A j \in 1..Len(call.pre) :
              j # CallTarget => out_data[j] = call.pre[j]
        /\ \A j \in 1..Len(CallPreRecord) :
              LET k == CallPreRecord[j].k
              IN  /\ Has(out_data[CallTarget], k)
                  /\ LastWriter(k) = 0 =>
                        Get(out_data[CallTarget], k) = CallPreRecord[j].v
        /\ \A i \in 1..Len(call.keys) :
              LET k == call.keys[i].key
              IN  LastWriter(k) # 0 =>
                    /\ Has(out_data[CallTarget], k)
                    /\ Get(out_data[CallTarget], k) = WrittenValue(LastWriter(k))

C2_Witness ==
    /\ call.made
    /\ CallUpdates
    /\ \E j \in 1..Len(CallPreRecord) :
          /\ LastWriter(CallPreRecord[j].k) # 0
          /\ Get(out_data[CallTarget], CallPreRecord[j].k) # CallPreRecord[j].v
    /\ \E j \in 1..Len(CallPreRecord) : LastWriter(CallPreRecord[j].k) = 0

\* C3: a call whose index is at or beyond the length of the list appends
\* exactly one record, as the last element, and keeps every earlier record.
C3_BeyondAppends ==
    (call.made /\ call.index # -1 /\ call.index >= Len(call.pre)) =>
        /\ Len(out_data) = Len(call.pre) + 1
        /\ \A j \in 1..Len(call.pre) : out_data[j] = call.pre[j]
        /\ \A i \in 1..Len(call.keys) :
              LET k == call.keys[i].key
                  last == out_data[Len(out_data)]
              IN  IF LastWriter(k) = 0 THEN ~Has(last, k)
                  ELSE Has(last, k) /\ Get(last, k) = WrittenValue(LastWriter(k))

C3_Witness ==
    /\ call.made
    /\ call.index > Len(call.pre)
    /\ Len(call.pre) > 0
    /\ Len(out_data[Len(out_data)]) > 0

----------------------------------------------------------------------------
(* The serializer on its own: any record sequence, serialized up to        *)
(* MaxFormatCalls times.                                                   *)

MaxTextLen == 3
MaxListLen == 2
MaxRecords == 2
MaxFormatCalls == 2

\* 'a', '"', '\\', '\n', the unit separator
FmtChars == {97, 34, 92, 10, 31}
FmtTexts == {TextV(s) : s \in SeqsUpTo(FmtChars, MaxTextLen)}
FmtNumbers == {IntV(5), IntV(0), IntV(0 - 12), FloatV(250), FloatV(5), FloatV(0 - 200)}
FmtElements == {IntV(1), IntV(23), FloatV(250), TextV(<<97>>), TextV(<<97, 34, 98>>)}
FmtLists == {ListV(l) : l \in SeqsUpTo(FmtElements, MaxListLen)}

Field(key, value) == [k |-> key, v |-> value]

\* {id: 5, name: 'a"b', tags: [1, 2, 3]}
ExampleRecord ==
    << Field("id", IntV(5)), Field("name", TextV(<<97, 34, 98>>)),
       Field("tags", ListV(<<IntV(1), IntV(2), IntV(3)>>)) >>

FmtSmallRecords ==
    { << >>, <<Field("id", IntV(5))>>, ExampleRecord,
      <<Field("name", TextV(<<97>>)), Field("id", FloatV(250))>>,
      <<Field("tags", ListV(<<TextV(<<97>>)>>))>> }

FmtInputs ==
    {<<r>> : r \in {<<Field("name", v)>> : v \in FmtTexts}
                  \cup {<<Field("tags", v)>> : v \in FmtLists}
                  \cup {<<Field("id", v)>> : v \in FmtNumbers}}
    \cup SeqsUpTo(FmtSmallRecords, MaxRecords)

InitFmt ==
    /\ out_data = << >> /\ call = NoCall
    /\ outdata \in FmtInputs
    /\ given = outdata
    /\ out = << >>
    /\ texts = << >>
    /\ NoExport

\* a serializer that pops each record off the list it is given
LuaFormatterDraining ==
    /\ Len(texts) < MaxFormatCalls
    /\ out' = FormatterOut(outdata)
    /\ texts' = Append(texts, lua_formatter(outdata))
    /\ outdata' = << >>
    /\ UNCHANGED <<given, projVars, exportVars>>

\* lines 64-87: out is a fresh list of every call, outdata is only read
LuaFormatter ==
    /\ Len(texts) < MaxFormatCalls
    /\ out' = FormatterOut(outdata)
    /\ texts' = Append(texts, lua_formatter(outdata))
    /\ UNCHANGED <<outdata, given, projVars, exportVars>>

NextFmt == LuaFormatter

SpecFmt == InitFmt /\ [][NextFmt]_vars

----------------------------------------------------------------------------
(* Claims about the serializer, stated on the chunks of the last call.     *)

Formatted == texts # << >>

\* the position in out of the chunk opening the block of record i, and of
\* the entry of its j-th key
RECURSIVE ChunksBefore(_)
ChunksBefore(i) == IF i <= 1 THEN 1 ELSE ChunksBefore(i - 1) + Len(outdata[i - 1]) + 2
BlockStart(i) == ChunksBefore(i) + 1
EntryChunk(i, j) == out[BlockStart(i) + j]

StartsWith(s, prefix) ==
    Len(s) >= Len(prefix) /\ SubSeq(s, 1, Len(prefix)) = prefix
EndsWith(s, suffix) ==
    Len(s) >= Len(suffix) /\ SubSeq(s, Len(s) - Len(suffix) + 1, Len(s)) = suffix

\* '\t\tkey='
EntryHead(key) == <<9, 9>> \o KeyText(key) \o <<61>>

IsNumeric(v) == v.t = "int" \/ v.t = "float"
NumeralOf(v) == IF v.t = "int" THEN IntStr(v.n) ELSE FloatStr(v.h)
\* a list element as the claim has it: a number bare, anything else quoted
ElementAsClaimed(v) ==
    IF IsNumeric(v) THEN NumeralOf(v) ELSE <<34>> \o v.s \o <<34>>

\* C8 as stated: every numeric value (int or float) is emitted unquoted, as
\* a field value and as a list element, every other list element quoted, and
\* a list is one inline {..} with its elements in order separated by ', '.
C8_NumbersUnquoted ==
    Formatted =>
        \A i \in 1..Len(outdata) : \A j \in 1..Len(outdata[i]) :
            LET key == outdata[i][j].k
                v == outdata[i][j].v
            IN  /\ IsNumeric(v) =>
                      EntryChunk(i, j) = EntryHead(key) \o NumeralOf(v) \o <<44, 10>>
                /\ v.t = "list" =>
                      EntryChunk(i, j) =
                          EntryHead(key) \o <<123>>
                          \o JoinWith(<<44, 32>>,
                                [e \in 1..Len(v.l) |-> ElementAsClaimed(v.l[e])])
                          \o <<125, 44, 10>>

\* body is s with one backslash inserted before each '"' and nothing else
\* changed
RECURSIVE IsEscapeOf(_, _)
IsEscapeOf(body, s) ==
    IF s = << >> THEN body = << >>
    ELSE IF s[1] = 34
    THEN /\ Len(body) >= 2
         /\ body[1] = 92 /\ body[2] = 34
         /\ IsEscapeOf(SubSeq(body, 3, Len(body)), Tail(s))
    ELSE /\ Len(body) >= 1
         /\ body[1] = s[1]
         /\ IsEscapeOf(Tail(body), Tail(s))

\* body with every '\"' turned back into '"'
RECURSIVE Unescape(_)
Unescape(body) ==
    IF body = << >> THEN << >>
    ELSE IF Len(body) >= 2 /\ body[1] = 92 /\ body[2] = 34
    THEN <<34>> \o Unescape(SubSeq(body, 3, Len(body)))
    ELSE <<body[1]>> \o Unescape(Tail(body))

\* what stands between the opening '"' and the closing '",\n' of a text entry
EntryBody(chunk, key) ==
    SubSeq(chunk, Len(EntryHead(key)) + 2, Len(chunk) - 3)

\* C9: a text field value is emitted between double quotes, each embedded
\* '"' preceded by exactly one inserted backslash, every other character
\* (backslash, newline, unit separator) copied unchanged and in order;
\* removing the inserted backslashes gives back the text.
C9_TextEscaped ==
    Formatted =>
        \A i \in 1..Len(outdata) : \A j \in 1..Len(outdata[i]) :
            LET key == outdata[i][j].k
                v == outdata[i][j].v
                chunk == EntryChunk(i, j)
            IN  v.t = "text" =>
                    /\ StartsWith(chunk, EntryHead(key) \o <<34>>)
                    /\ EndsWith(chunk, <<34, 44, 10>>)
                    /\ Len(chunk) >= Len(EntryHead(key)) + 4
                    /\ IsEscapeOf(EntryBody(chunk, key), v.s)
                    /\ Unescape(EntryBody(chunk, key)) = v.s

C9_Witness ==
    /\ Formatted
    /\ \E i \in 1..Len(outdata) : \E j \in 1..Len(outdata[i]) :
          /\ outdata[i][j].v = [t |-> "text", s |-> <<92, 34, 31>>]
          /\ EntryBody(EntryChunk(i, j), outdata[i][j].k) = <<92, 92, 34, 31>>

\* C10: the text is the opening marker, one block per record in order, each
\* with one entry per key in key order between the same opening and closing
\* markers whatever the number of keys, then the closing marker and the
\* return statement.
C10_Structure ==
    Formatted =>
        /\ texts[Len(texts)] = Join(out)
        /\ Len(out) = ChunksBefore(Len(outdata) + 1) + 3
        /\ out[1] = TableOpen
        /\ \A i \in 1..Len(outdata) :
              /\ out[BlockStart(i)] = BlockOpen
              /\ \A j \in 1..Len(outdata[i]) :
                    /\ StartsWith(EntryChunk(i, j), EntryHead(outdata[i][j].k))
                    /\ EndsWith(EntryChunk(i, j), <<44, 10>>)
              /\ out[BlockStart(i) + Len(outdata[i]) + 1] = BlockClose
        /\ out[Len(out) - 2] = TableClose
        /\ out[Len(out) - 1] = Newline
        /\ out[Len(out)] = ReturnData

C10_Witness ==
    /\ Formatted
    /\ Len(outdata) = 2
    /\ outdata[1] = << >>
    /\ Len(outdata[2]) = 3
    /\ Len(out) = 11

----------------------------------------------------------------------------
(* QuestRewardReader._write_lua: the pre-sort, then lua_formatter          *)

\* a < b for two str values (by code point, a proper prefix first)
RECURSIVE TextLess(_, _)
TextLess(a, b) ==
    IF b = << >> THEN FALSE
    ELSE IF a = << >> THEN TRUE
    ELSE IF a[1] # b[1] THEN a[1] < b[1]
    ELSE TextLess(Tail(a), Tail(b))

\* a < b for two sort keys: ints by value, strs as text
KeyLess(a, b) ==
    IF a.t = "int" THEN a.n < b.n ELSE TextLess(a.s, b.s)

\* list.sort(key=lambda x: x[field]) is stable: a record goes behind every
\* record already placed whose key is not greater than its own
RECURSIVE InsertByKey(_, _, _)
InsertByKey(sorted, x, field) ==
    IF sorted = << >> THEN <<x>>
    ELSE IF KeyLess(Get(x, field), Get(sorted[1], field))
    THEN <<x>> \o sorted
    ELSE <<sorted[1]>> \o InsertByKey(Tail(sorted), x, field)

RECURSIVE SortFrom(_, _, _)
SortFrom(sorted, rest, field) ==
    IF rest = << >> THEN sorted
    ELSE SortFrom(InsertByKey(sorted, rest[1], field), Tail(rest), field)

SortByKey(records, field) == SortFrom(<< >>, records, field)

\* lines 467-469
PreSortActFirst(records) ==
    SortByKey(SortByKey(SortByKey(records, "act"), "quest_id"), "reward")
PreSort(records) ==
    SortByKey(SortByKey(SortByKey(records, "reward"), "quest_id"), "act")

\* lines 465-481: the records are sorted in place and serialized
write_lua(records) ==
    /\ given' = records
    /\ outdata' = PreSort(records)
    /\ out' = FormatterOut(PreSort(records))
    /\ texts' = <<lua_formatter(PreSort(records))>>

----------------------------------------------------------------------------
(* The ordering step on its own: any sequence of reward records.           *)

MaxSortLen == 3

\* 'q1', 'q2'; 'x', 'xy'; 'a', 'b'
SortRecords ==
    { << Field("quest_id", TextV(q)), Field("act", IntV(a)),
         Field("reward", TextV(r)), Field("npc", TextV(n)) >> :
      q \in {<<113, 49>>, <<113, 50>>}, a \in {2, 10},
      r \in {<<120>>, <<120, 121>>}, n \in {<<97>>, <<98>>} }

InitSort ==
    /\ out_data = << >> /\ call = NoCall
    /\ outdata \in SeqsUpTo(SortRecords, MaxSortLen)
    /\ given = outdata
    /\ out = << >>
    /\ texts = << >>
    /\ NoExport

WriteLua ==
    /\ texts = << >>
    /\ write_lua(outdata)
    /\ UNCHANGED <<projVars, exportVars>>

NextSort == WriteLua

SpecSort == InitSort /\ [][NextSort]_vars

\* a record's (act, quest_id, reward), and their lexicographic order
Triple(r) == <<Get(r, "act").n, Get(r, "quest_id").s, Get(r, "reward").s>>
TripleLessEq(a, b) ==
    \/ a[1] < b[1]
    \/ a[1] = b[1] /\ TextLess(a[2], b[2])
    \/ a[1] = b[1] /\ a[2] = b[2] /\ ~TextLess(b[3], a[3])

\* C7: the records handed to the serializer are a permutation of the input,
\* ascending in (act, quest_id, reward), and records equal on all three keep
\* their input order: for each key triple, the records carrying it are the
\* same sequence before and after.
C7_SortedStable ==
    Formatted =>
        /\ Len(outdata) = Len(given)
        /\ \A i, j \in 1..Len(outdata) :
              i < j => TripleLessEq(Triple(outdata[i]), Triple(outdata[j]))
        /\ \A i \in 1..Len(given) :
              SelectSeq(outdata, LAMBDA r : Triple(r) = Triple(given[i]))
                = SelectSeq(given, LAMBDA r : Triple(r) = Triple(given[i]))

C7_Witness ==
    /\ Formatted
    /\ Len(given) = 3
    /\ outdata[1] = given[3] /\ outdata[2] = given[1] /\ outdata[3] = given[2]
    /\ Triple(outdata[2]) = Triple(outdata[3])
    /\ outdata[2] # outdata[3]
    /\ Triple(outdata[1])[1] = Triple(outdata[2])[1]

----------------------------------------------------------------------------
(* The record repository (self.rr): the tables the reward exports read.    *)

UNIT_SEP == 31

\* Characters.dat
Marauder == [Name |-> <<77, 97, 114, 97, 117, 100, 101, 114>>]      \* 'Marauder'
Ranger == [Name |-> <<82, 97, 110, 103, 101, 114>>]                 \* 'Ranger'
Witch == [Name |-> <<87, 105, 116, 99, 104>>]                     \* 'Witch'
CharactersDat == <<Marauder, Ranger, Witch>>

\* Quest.dat
QuestA1Q1 == [Id |-> <<97, 49, 113, 49>>, Name |-> <<69, 110, 101, 109, 121>>, Act |-> 1]
QuestA1Q2 == [Id |-> <<97, 49, 113, 50>>, Name |-> <<66, 114, 117, 116, 101>>, Act |-> 1]
QuestA6Q4 == [Id |-> <<97, 54, 113, 52>>, Name |-> <<71, 114, 97, 99, 101>>, Act |-> 6]

\* QuestStates.dat
QuestStatesDat ==
    << [QuestStates |-> {1, 2}, QuestKey |-> QuestA1Q1],
       [QuestStates |-> {2}, QuestKey |-> QuestA1Q2] >>

\* BaseItemTypes.dat
Ring12 == [Id |-> <<77, 101, 116, 97, 100, 97, 116, 97, 47, 73, 116, 101, 109, 115, 47, 82, 105, 110, 103, 115, 47, 82, 105, 110, 103, 49, 50>>,
           Name |-> <<84, 119, 111, 45, 83, 116, 111, 110, 101, 32, 82, 105, 110, 103>>, ItemClassesKey |-> [Id |-> "Ring"]]
Ring1 == [Id |-> <<77, 101, 116, 97, 100, 97, 116, 97, 47, 73, 116, 101, 109, 115, 47, 82, 105, 110, 103, 115, 47, 82, 105, 110, 103, 49>>,
          Name |-> <<73, 114, 111, 110, 32, 82, 105, 110, 103>>, ItemClassesKey |-> [Id |-> "Ring"]]
Fireball == [Id |-> <<77, 101, 116, 97, 100, 97, 116, 97, 47, 73, 116, 101, 109, 115, 47, 71, 101, 109, 115, 47, 83, 107, 105, 108, 108, 71, 101, 109, 70, 105, 114, 101, 98, 97, 108, 108>>,
             Name |-> <<70, 105, 114, 101, 98, 97, 108, 108>>, ItemClassesKey |-> [Id |-> "Active Skill Gem"]]

\* NPCs.dat
Nessa == [Name |-> <<78, 101, 115, 115, 97>>]
Tarkleigh == [Name |-> <<84, 97, 114, 107, 108, 101, 105, 103, 104>>]

----------------------------------------------------------------------------
(* QuestRewardReader.read_vendor_rewards                                   *)

\* s.split(sep) for a one-character sep
RECURSIVE SplitFrom(_, _, _)
SplitFrom(s, sep, part) ==
    IF s = << >> THEN <<part>>
    ELSE IF s[1] = sep THEN <<part>> \o SplitFrom(Tail(s), sep, << >>)
    ELSE SplitFrom(Tail(s), sep, Append(part, s[1]))
Split(s, sep) == SplitFrom(s, sep, << >>)

ToSet(seq) == {seq[i] : i \in 1..Len(seq)}

\* sorted(texts) for a set of strs
RECURSIVE Sorted(_)
Sorted(S) ==
    IF S = {} THEN << >>
    ELSE LET least == CHOOSE x \in S : \A y \in S : ~TextLess(y, x)
         IN  <<least>> \o Sorted(S \ {least})

\* lines 581-589: the quests of a row's quest state
RECURSIVE QuestsIn(_, _)
QuestsIn(states, quest_state_key) ==
    IF states = << >> THEN << >>
    ELSE (IF quest_state_key \in states[1].QuestStates
          THEN <<states[1].QuestKey>> ELSE << >>)
         \o QuestsIn(Tail(states), quest_state_key)

QuestsOf(row) ==
    LET quests == QuestsIn(QuestStatesDat, row.QuestState)
    IN  IF quests = << >> /\ row.QuestState = 385 THEN <<QuestA6Q4>> ELSE quests

\* [cls['Name'] for cls in classes]
Names(refs) == [i \in 1..Len(refs) |-> refs[i].Name]

\* lines 617-629: the record of one quest and item of a row
VendorData(row, quest, item) ==
    LET classes == row.CharactersKeys
        data == << Field("quest", TextV(quest.Name)),
                   Field("quest_id", TextV(quest.Id)),
                   Field("act", IntV(quest.Act)),
                   Field("reward", TextV(item.Name)),
                   Field("npc", TextV(row.NPCKey.Name)) >>
    IN  IF classes # << >>
        THEN Append(data, Field("classes",
                 TextV(JoinWith(<<UNIT_SEP>>, Names(classes)))))
        ELSE data

\* line 631
VendorKey(quest, item) == quest.Id \o item.Id

\* lines 615-616: the (quest, item) pairs of a row in loop order
VendorPairs(quests, items) ==
    [n \in 1..(Len(quests) * Len(items)) |->
        [quest |-> quests[((n - 1) \div Len(items)) + 1],
         item |-> items[((n - 1) % Len(items)) + 1]]]

\* compress[key]['classes'] += sep + value: KeyError when the record has no
\* 'classes'
AccumulateNoSep(record, value) ==
    DictSet(record, "classes", TextV(Get(record, "classes").s \o value))
Accumulate(record, value) ==
    DictSet(record, "classes",
            TextV(Get(record, "classes").s \o <<UNIT_SEP>> \o value))

\* a merge in which the last record of a key replaces the earlier one
RECURSIVE VendorMergeLast(_, _, _)
VendorMergeLast(c, row, pairs) ==
    IF pairs = << >> THEN [compress |-> c, raised |-> FALSE]
    ELSE VendorMergeLast(
             DictSet(c, VendorKey(pairs[1].quest, pairs[1].item),
                     VendorData(row, pairs[1].quest, pairs[1].item)),
             row, Tail(pairs))

\* lines 631-637 over the pairs of a row; raised when line 634 raises
RECURSIVE VendorMerge(_, _, _)
VendorMerge(c, row, pairs) ==
    IF pairs = << >> THEN [compress |-> c, raised |-> FALSE]
    ELSE LET data == VendorData(row, pairs[1].quest, pairs[1].item)
             key == VendorKey(pairs[1].quest, pairs[1].item)
         IN  IF Has(c, key)
             THEN IF Has(data, "classes")
                  THEN IF Has(Get(c, key), "classes")
                       THEN VendorMerge(
                                DictSet(c, key,
                                    Accumulate(Get(c, key), Get(data, "classes").s)),
                                row, Tail(pairs))
                       ELSE [compress |-> c, raised |-> TRUE]
                  ELSE VendorMerge(c, row, Tail(pairs))
             ELSE VendorMerge(DictSet(c, key, data), row, Tail(pairs))

\* line 639
classes_set == ToSet(Names(CharactersDat))

\* line 645
CoversReversed(classes) == classes \ classes_set = {}
Covers(classes) == classes_set \ classes = {}

\* line 648
CanonicalUnsorted(value) == value
Canonical(value) == JoinWith(<<UNIT_SEP>>, Sorted(ToSet(Split(value, UNIT_SEP))))

\* lines 642-648 for one record
PostClasses(v) ==
    IF ~Has(v, "classes") THEN v
    ELSE IF Covers(ToSet(Split(Get(v, "classes").s, UNIT_SEP)))
    THEN DictDel(v, "classes")
    ELSE DictSet(v, "classes", TextV(Canonical(Get(v, "classes").s)))

\* lines 641-648
PostProcess(c) == [i \in 1..Len(c) |-> [k |-> c[i].k, v |-> PostClasses(c[i].v)]]

\* compress.values()
Values(c) == [i \in 1..Len(c) |-> c[i].v]

MaxRows == 3

\* the rows QuestVendorRewards.dat may hold
VendorRows ==
    {[QuestState |-> 1, NPCKey |-> n, BaseItemTypesKeys |-> <<Fireball>>,
      CharactersKeys |-> cs] :
        n \in {Nessa, Tarkleigh},
        cs \in {<< >>, <<Witch>>, <<Marauder>>, <<Ranger>>, <<Witch, Ranger>>}}
    \cup
    {[QuestState |-> 2, NPCKey |-> Nessa, BaseItemTypesKeys |-> <<Fireball, Ring12>>,
      CharactersKeys |-> cs] : cs \in {<< >>, <<Marauder>>}}
    \cup
    {[QuestState |-> 9, NPCKey |-> Nessa, BaseItemTypesKeys |-> <<Fireball>>,
      CharactersKeys |-> <<Witch>>],
     [QuestState |-> 1, NPCKey |-> Nessa, BaseItemTypesKeys |-> << >>,
      CharactersKeys |-> <<Witch>>],
     [QuestState |-> 385, NPCKey |-> Tarkleigh, BaseItemTypesKeys |-> <<Ring12>>,
      CharactersKeys |-> <<Ranger>>]}

InitVendor ==
    /\ out_data = << >> /\ call = NoCall
    /\ outdata = << >> /\ given = << >> /\ out = << >> /\ texts = << >>
    /\ compress = << >> /\ merged = << >> /\ rows = << >> /\ pc = "rows"
    /\ warnings = << >> /\ rarity = NoneV
    /\ language = "English"

\* lines 576-637: one row of QuestVendorRewards.dat
VendorRow(row) ==
    /\ pc = "rows"
    /\ Len(rows) < MaxRows
    /\ rows' = Append(rows, row)
    /\ IF QuestsOf(row) = << >>
       THEN /\ warnings' = Append(warnings, [rowid |-> Len(rows), what |-> "no quest"])
            /\ UNCHANGED <<compress, pc>>
       ELSE IF row.BaseItemTypesKeys = << >>
       THEN /\ warnings' = Append(warnings, [rowid |-> Len(rows), what |-> "no items"])
            /\ UNCHANGED <<compress, pc>>
       ELSE LET r == VendorMerge(compress, row,
                         VendorPairs(QuestsOf(row), row.BaseItemTypesKeys))
            IN  /\ compress' = r.compress
                /\ pc' = IF r.raised THEN "raised" ELSE "rows"
                /\ UNCHANGED warnings
    /\ UNCHANGED <<merged, rarity, language, projVars, fmtVars>>

\* lines 639-650: the classes pass, then _write_lua
VendorFinish ==
    /\ pc = "rows"
    /\ merged' = compress
    /\ compress' = PostProcess(compress)
    /\ write_lua(Values(PostProcess(compress)))
    /\ pc' = "done"
    /\ UNCHANGED <<rows, warnings, rarity, language, projVars>>

NextVendor ==
    \/ \E row \in VendorRows : VendorRow(row)
    \/ VendorFinish

SpecVendor == InitVendor /\ [][NextVendor]_vars

----------------------------------------------------------------------------
(* Claims about the vendor-reward merge.                                   *)

\* the identity keys row i of the table was filed under
KeysOfRow(i) ==
    IF QuestsOf(rows[i]) = << >> THEN {}
    ELSE LET pairs == VendorPairs(QuestsOf(rows[i]), rows[i].BaseItemTypesKeys)
         IN  {pairs[n].quest.Id \o pairs[n].item.Id : n \in 1..Len(pairs)}

\* the class names the rows read so far contributed to the group of key
Contributions(key) ==
    UNION {ToSet(Names(rows[i].CharactersKeys)) :
             i \in {n \in 1..Len(rows) : key \in KeysOfRow(n)}}

UniverseNames == {CharactersDat[i].Name : i \in 1..Len(CharactersDat)}

StrictlyAscending(parts) ==
    \A a, b \in 1..Len(parts) : a < b => TextLess(parts[a], parts[b])

\* C4: when the export has finished, a group with contributions that do not
\* cover the class universe has a 'classes' value that splits on the unit
\* separator into a strictly ascending sequence (sorted, no duplicates) of
\* exactly the contributed names: a function of the set of contributions,
\* whatever the order the rows arrived in.
C4_ClassesCanonical ==
    pc = "done" =>
        \A g \in 1..Len(compress) :
            LET contributed == Contributions(compress[g].k)
            IN  (contributed # {} /\ ~(UniverseNames \subseteq contributed)) =>
                    /\ Has(compress[g].v, "classes")
                    /\ StrictlyAscending(Split(Get(compress[g].v, "classes").s, 31))
                    /\ ToSet(Split(Get(compress[g].v, "classes").s, 31)) = contributed

C4_Witness ==
    /\ pc = "done"
    /\ \E g \in 1..Len(compress) :
          /\ Has(compress[g].v, "classes")
          /\ Len(Split(Get(merged[g].v, "classes").s, 31)) = 3
          /\ Len(Split(Get(compress[g].v, "classes").s, 31)) = 2
          /\ Split(Get(merged[g].v, "classes").s, 31)[1]
                # Split(Get(compress[g].v, "classes").s, 31)[1]

\* C5: the classes pass removes a record's 'classes' exactly when its
\* accumulated value, split on the unit separator, is as a set the set of all
\* names of Characters.dat; for any other accumulated set the field stays.
C5_DroppedIffUniverse ==
    pc = "done" =>
        \A g \in 1..Len(merged) :
            Has(merged[g].v, "classes") =>
                (~Has(compress[g].v, "classes")
                    <=> ToSet(Split(Get(merged[g].v, "classes").s, 31)) = UniverseNames)

C5_Witness ==
    /\ pc = "done"
    /\ \E g, h \in 1..Len(merged) :
          /\ Has(merged[g].v, "classes") /\ ~Has(compress[g].v, "classes")
          /\ Has(merged[h].v, "classes") /\ Has(compress[h].v, "classes")

\* the first row of the table filed under key, and the record the export
\* built for key from that row
FirstRowOf(key) ==
    CHOOSE i \in 1..Len(rows) :
        /\ key \in KeysOfRow(i)
        /\ \A h \in 1..(i - 1) : key \notin KeysOfRow(h)
FirstRecordOf(key) ==
    LET row == rows[FirstRowOf(key)]
        pairs == VendorPairs(QuestsOf(row), row.BaseItemTypesKeys)
        n == CHOOSE m \in 1..Len(pairs) :
                 /\ VendorKey(pairs[m].quest, pairs[m].item) = key
                 /\ \A l \in 1..(m - 1) :
                       VendorKey(pairs[l].quest, pairs[l].item) # key
    IN  VendorData(row, pairs[n].quest, pairs[n].item)

\* a record without its accumulator field
WithoutClasses(record) == DictDel(record, "classes")

\* the identity keys of the rows read so far
KeysSeen == UNION {KeysOfRow(i) : i \in 1..Len(rows)}

\* C14: at every point of the vendor-reward export the merge group holds one
\* record per identity key, only for keys seen and (unless the export
\* raised) for every key seen, and every field of a record other than
\* 'classes' has the value, at the position, it had in the first record
\* built with that key: later records of the key change 'classes' at most.
C14_FirstRecordKept ==
    /\ \A g, h \in 1..Len(compress) : compress[g].k = compress[h].k => g = h
    /\ {compress[g].k : g \in 1..Len(compress)} \subseteq KeysSeen
    /\ pc # "raised" => KeysSeen \subseteq {compress[g].k : g \in 1..Len(compress)}
    /\ \A g \in 1..Len(compress) :
          WithoutClasses(compress[g].v)
              = WithoutClasses(FirstRecordOf(compress[g].k))

C14_Witness ==
    /\ pc = "done"
    /\ \E i, j \in 1..Len(rows) : \E g \in 1..Len(merged) :
          /\ i < j
          /\ merged[g].k \in KeysOfRow(i) \cap KeysOfRow(j)
          /\ i = FirstRowOf(merged[g].k)
          /\ rows[i].NPCKey # rows[j].NPCKey
          /\ rows[i].CharactersKeys # << >> /\ rows[j].CharactersKeys # << >>
          /\ Get(merged[g].v, "npc") = TextV(rows[i].NPCKey.Name)
          /\ Get(merged[g].v, "classes") # Get(FirstRecordOf(merged[g].k), "classes")

\* the merge group before the classes pass
BeforePost == IF pc = "done" THEN merged ELSE compress

\* C15 as stated, for the vendor-reward export: whichever records of a key
\* carry 'classes', the merge does not raise, and before the classes pass
\* the representative's 'classes' split on the unit separator holds every
\* name contributed by a record of the key (a representative of a key with no
\* contribution has no 'classes').
C15_MergeCompletes ==
    /\ pc # "raised"
    /\ \A g \in 1..Len(BeforePost) :
          LET contributed == Contributions(BeforePost[g].k)
              record == BeforePost[g].v
          IN  IF contributed = {} THEN ~Has(record, "classes")
              ELSE /\ Has(record, "classes")
                   /\ contributed = ToSet(Split(Get(record, "classes").s, 31))

----------------------------------------------------------------------------
(* QuestRewardReader.read_quest_rewards                                    *)

\* more of Quest.dat (a quest without a name) and of BaseItemTypes.dat
QuestUnnamed == [Id |-> <<97, 49, 113, 57>>, Name |-> << >>, Act |-> 1]
CobaltJewel == [Id |-> <<77, 101, 116, 97, 100, 97, 116, 97, 47, 73, 116, 101, 109, 115, 47, 74, 101, 119, 101, 108, 115, 47, 74, 101, 119, 101, 108, 73, 110, 116>>,
                Name |-> <<67, 111, 98, 97, 108, 116, 32, 74, 101, 119, 101, 108>>, ItemClassesKey |-> [Id |-> "Jewel"]]
SkillBook == [Id |-> <<77, 101, 116, 97, 100, 97, 116, 97, 47, 73, 116, 101, 109, 115, 47, 81, 117, 101, 115, 116, 73, 116, 101, 109, 115, 47, 83, 107, 105, 108, 108, 66, 111, 111, 107, 115, 47, 66, 111, 111, 107, 45, 97, 49, 113, 54>>,
              Name |-> <<66, 111, 111, 107, 32, 111, 102, 32, 83, 107, 105, 108, 108>>, ItemClassesKey |-> [Id |-> "QuestItem"]]
BeachMap == [Id |-> <<77, 101, 116, 97, 100, 97, 116, 97, 47, 73, 116, 101, 109, 115, 47, 77, 97, 112, 115, 47, 77, 97, 112, 87, 111, 114, 108, 100, 115, 66, 101, 97, 99, 104>>,
             Name |-> <<66, 101, 97, 99, 104, 32, 77, 97, 112>>, ItemClassesKey |-> [Id |-> "Map"]]

\* ClientStrings.dat: 'ItemDisplayString' + name_upper of a rarity -> Text
RarityText(rarity_key) ==
    CASE rarity_key = "NORMAL" -> <<78, 111, 114, 109, 97, 108>>
      [] rarity_key = "MAGIC" -> <<77, 97, 103, 105, 99>>
      [] rarity_key = "RARE" -> <<82, 97, 114, 101>>
      [] rarity_key = "UNIQUE" -> <<85, 110, 105, 113, 117, 101>>

\* MapSeries.dat: index['Id']['MapWorlds']['Name']
MapWorldsName == <<65, 116, 108, 97, 115>>

\* _ITEM_MAP (lines 378-440): the languages it has, and its entries 423-425
HasItemMap(lang) == lang \in {"English", "Russian"}
ItemMapEnglish ==
    << [k |-> 423, v |-> <<83, 117, 114, 118, 105, 118, 97, 108, 32, 73, 110, 115, 116, 105, 110, 99, 116, 115>>],
       [k |-> 424, v |-> <<83, 117, 114, 118, 105, 118, 97, 108, 32, 83, 107, 105, 108, 108, 115>>],
       [k |-> 425, v |-> <<83, 117, 114, 118, 105, 118, 97, 108, 32, 83, 101, 99, 114, 101, 116, 115>>] >>

\* _TWO_STONE_MAP (lines 442-461)
HasTwoStoneMap(lang) == lang \in {"English", "Russian", "German"}
TwoStoneMap(lang) ==
    IF lang = "German"
    THEN << [k |-> <<77, 101, 116, 97, 100, 97, 116, 97, 47, 73, 116, 101, 109, 115, 47, 82, 105, 110, 103, 115, 47, 82, 105, 110, 103, 49, 50>>,
             v |-> <<90, 119, 101, 105, 115, 116, 101, 105, 110, 114, 105, 110, 103, 32, 40, 82, 117, 98, 105, 110, 32, 117, 110, 100, 32, 84, 111, 112, 97, 115, 41>>],
            [k |-> <<77, 101, 116, 97, 100, 97, 116, 97, 47, 73, 116, 101, 109, 115, 47, 82, 105, 110, 103, 115, 47, 82, 105, 110, 103, 49, 51>>,
             v |-> <<90, 119, 101, 105, 115, 116, 101, 105, 110, 114, 105, 110, 103, 32, 40, 83, 97, 112, 104, 105, 114, 32, 117, 110, 100, 32, 84, 111, 112, 97, 115, 41>>],
            [k |-> <<77, 101, 116, 97, 100, 97, 116, 97, 47, 73, 116, 101, 109, 115, 47, 82, 105, 110, 103, 115, 47, 82, 105, 110, 103, 49, 52>>,
             v |-> <<90, 119, 101, 105, 115, 116, 101, 105, 110, 114, 105, 110, 103, 32, 40, 82, 117, 98, 105, 110, 32, 117, 110, 100, 32, 83, 97, 112, 104, 105, 114, 41>>] >>
    ELSE << [k |-> <<77, 101, 116, 97, 100, 97, 116, 97, 47, 73, 116, 101, 109, 115, 47, 82, 105, 110, 103, 115, 47, 82, 105, 110, 103, 49, 50>>,
             v |-> <<84, 119, 111, 45, 83, 116, 111, 110, 101, 32, 82, 105, 110, 103, 32, 40, 114, 117, 98, 121, 32, 97, 110, 100, 32, 116, 111, 112, 97, 122, 41>>],
            [k |-> <<77, 101, 116, 97, 100, 97, 116, 97, 47, 73, 116, 101, 109, 115, 47, 82, 105, 110, 103, 115, 47, 82, 105, 110, 103, 49, 51>>,
             v |-> <<84, 119, 111, 45, 83, 116, 111, 110, 101, 32, 82, 105, 110, 103, 32, 40, 115, 97, 112, 112, 104, 105, 114, 101, 32, 97, 110, 100, 32, 116, 111, 112, 97, 122, 41>>],
            [k |-> <<77, 101, 116, 97, 100, 97, 116, 97, 47, 73, 116, 101, 109, 115, 47, 82, 105, 110, 103, 115, 47, 82, 105, 110, 103, 49, 52>>,
             v |-> <<84, 119, 111, 45, 83, 116, 111, 110, 101, 32, 82, 105, 110, 103, 32, 40, 114, 117, 98, 121, 32, 97, 110, 100, 32, 115, 97, 112, 112, 104, 105, 114, 101, 41>>] >>

\* the local variable rarity before its first assignment
Unbound == [t |-> "unbound"]

\* sub in s
Contains(s, sub) ==
    \E i \in 0..(Len(s) - Len(sub)) : SubSeq(s, i + 1, i + Len(sub)) = sub

\* '%s (%s)' % (a, b)
WithParens(a, b) == a \o <<32, 40>> \o b \o <<41>>

\* line 564
QuestKey(quest, item, row) == quest.Id \o item.Id \o IntStr(row.Key0)

NoRarityClasses == {"Active Skill Gem", "Support Skill Gem", "QuestItem", "StackableCurrency"}

\* lines 499-517: the record up to 'sockets'
QuestDataHead(row) ==
    LET quest == row.QuestKey
        character == row.CharactersKey
        d1 == << Field("quest", TextV(quest.Name)),
                 Field("quest_id", TextV(quest.Id)),
                 Field("act", IntV(quest.Act)) >>
        d2 == IF character # NoneV
              THEN Append(d1, Field("classes", TextV(character.Name))) ELSE d1
    IN  IF row.SocketGems # << >>
        THEN Append(d2, Field("sockets", TextV(row.SocketGems))) ELSE d2

\* lines 519-528: the name before the correction tables
QuestItemName(row) ==
    LET item == row.BaseItemTypesKey
        itemcls == item.ItemClassesKey.Id
    IN  IF itemcls = "QuestItem" /\ Contains(item.Id, <<66, 111, 111, 107>>)
        THEN WithParens(item.Name, row.QuestKey.Name)
        ELSE IF itemcls = "Map" THEN WithParens(item.Name, MapWorldsName)
        ELSE item.Name

\* lines 485-568 for one row: what it leaves in compress and rarity, the
\* warnings it makes, and whether it raised
QuestStep(c, rar, lang, row, rowid) ==
    LET item == row.BaseItemTypesKey
        quest == row.QuestKey
        character == row.CharactersKey
        skip == [compress |-> c, rarity |-> rar, warned |-> << >>, raised |-> FALSE]
    IN
    IF item = NoneV THEN skip                                   \* line 490
    ELSE IF quest = NoneV                                        \* line 501
    THEN [compress |-> c, rarity |-> rar, warned |-> << >>, raised |-> TRUE]
    ELSE IF quest.Name = << >> THEN skip                         \* line 504
    ELSE
    LET itemcls == item.ItemClassesKey.Id
        rarity1 == IF row.RarityKey # "ANY"                      \* line 511
                   THEN TextV(RarityText(row.RarityKey)) ELSE rar
        rated == itemcls \notin NoRarityClasses                  \* line 530
    IN
    IF rated /\ rarity1 = Unbound                                \* line 533
    THEN [compress |-> c, rarity |-> rarity1, warned |-> << >>, raised |-> TRUE]
    ELSE
    LET head == QuestDataHead(row)
        d3 == IF rated
              THEN head \o << Field("item_level", IntV(row.ItemLevel)),
                             Field("rarity", rarity1) >>
              ELSE head
        unique == rated /\ row.RarityKey = "ANY"                 \* line 535
        captured == unique /\ HasItemMap(lang) /\ Has(ItemMapEnglish, row.Key0)
        w1 == IF unique /\ ~HasItemMap(lang)
              THEN <<[rowid |-> rowid, what |-> "no unique item mapping"]>>
              ELSE IF unique /\ ~captured
              THEN <<[rowid |-> rowid, what |-> "uncaptured unique item"]>>
              ELSE << >>
        name1 == IF captured THEN Get(ItemMapEnglish, row.Key0)
                 ELSE QuestItemName(row)
        d4 == IF captured
              THEN DictSet(d3, "rarity", TextV(RarityText("UNIQUE"))) ELSE d3
        w2 == IF ~HasTwoStoneMap(lang)                           \* line 556
              THEN <<[rowid |-> rowid, what |-> "no two stone ring mapping"]>>
              ELSE << >>
        name2 == IF HasTwoStoneMap(lang) /\ Has(TwoStoneMap(lang), item.Id)
                 THEN Get(TwoStoneMap(lang), item.Id) ELSE name1
        data == Append(d4, Field("reward", TextV(name2)))
        key == QuestKey(quest, item, row)
    IN
    IF Has(c, key)
    THEN IF ~Has(Get(c, key), "classes") \/ character = NoneV    \* line 566
         THEN [compress |-> c, rarity |-> rarity1, warned |-> w1 \o w2,
               raised |-> TRUE]
         ELSE [compress |-> DictSet(c, key, Accumulate(Get(c, key), character.Name)),
               rarity |-> rarity1, warned |-> w1 \o w2, raised |-> FALSE]
    ELSE [compress |-> DictSet(c, key, data),
          rarity |-> rarity1, warned |-> w1 \o w2, raised |-> FALSE]

\* the rows QuestRewards.dat may hold
QuestRow(item, quest, character, rarity_key, key0) ==
    [BaseItemTypesKey |-> item, QuestKey |-> quest, CharactersKey |-> character,
     RarityKey |-> rarity_key, SocketGems |-> << >>, ItemLevel |-> 1, Key0 |-> key0]

QuestRows ==
    {QuestRow(Ring12, QuestA1Q1, c, "MAGIC", 3) : c \in {Marauder, Ranger, Witch, NoneV}}
    \cup {QuestRow(Fireball, QuestA1Q1, c, "NORMAL", 0) : c \in {Witch, NoneV}}
    \cup {QuestRow(CobaltJewel, QuestA1Q2, NoneV, "ANY", u) : u \in {425, 999}}
    \cup {QuestRow(NoneV, QuestA1Q1, NoneV, "NORMAL", 0),
          QuestRow(Fireball, QuestUnnamed, Witch, "NORMAL", 0),
          QuestRow(Fireball, NoneV, Witch, "NORMAL", 0),
          QuestRow(Ring1, QuestA1Q1, Marauder, "NORMAL", 23),
          QuestRow(SkillBook, QuestA1Q2, NoneV, "NORMAL", 0),
          QuestRow(BeachMap, QuestA1Q2, Witch, "RARE", 0),
          [QuestRow(Ring12, QuestA1Q2, Ranger, "ANY", 0)
              EXCEPT !.SocketGems = <<82, 45, 71>>, !.ItemLevel = 20]}

Languages == {"English", "German", "French"}

InitQuest ==
    /\ out_data = << >> /\ call = NoCall
    /\ outdata = << >> /\ given = << >> /\ out = << >> /\ texts = << >>
    /\ compress = << >> /\ merged = << >> /\ rows = << >> /\ pc = "rows"
    /\ warnings = << >> /\ rarity = Unbound
    /\ language \in Languages

\* lines 485-568: one row of QuestRewards.dat
QuestRewardsRow(row) ==
    /\ pc = "rows"
    /\ Len(rows) < MaxRows
    /\ rows' = Append(rows, row)
    /\ LET r == QuestStep(compress, rarity, language, row, Len(rows))
       IN  /\ compress' = r.compress
           /\ rarity' = r.rarity
           /\ warnings' = warnings \o r.warned
           /\ pc' = IF r.raised THEN "raised" ELSE "rows"
    /\ UNCHANGED <<merged, language, projVars, fmtVars>>

\* lines 570-571
QuestFinish ==
    /\ pc = "rows"
    /\ merged' = compress
    /\ write_lua(Values(compress))
    /\ pc' = "done"
    /\ UNCHANGED <<compress, rows, warnings, rarity, language, projVars>>

NextQuest ==
    \/ \E row \in QuestRows : QuestRewardsRow(row)
    \/ QuestFinish

SpecQuest == InitQuest /\ [][NextQuest]_vars

----------------------------------------------------------------------------
(* Claims about the quest-reward export.                                   *)

\* row i was filed: it has an item and a named quest
Filed(i) ==
    /\ rows[i].BaseItemTypesKey # NoneV
    /\ rows[i].QuestKey # NoneV
    /\ rows[i].QuestKey.Name # << >>

\* the identity key of a filed row
KeyOfRow(i) ==
    rows[i].QuestKey.Id \o rows[i].BaseItemTypesKey.Id \o IntStr(rows[i].Key0)

\* the class names of the rows filed under key, in table order
RECURSIVE ClassNamesFrom(_, _)
ClassNamesFrom(i, key) ==
    IF i > Len(rows) THEN << >>
    ELSE (IF Filed(i) /\ KeyOfRow(i) = key /\ rows[i].CharactersKey # NoneV
          THEN <<rows[i].CharactersKey.Name>> ELSE << >>)
         \o ClassNamesFrom(i + 1, key)

\* rows i < j reference the same quest and the same item and link different
\* character classes
SameRewardTwoClasses(i, j) ==
    /\ i < j /\ Filed(i) /\ Filed(j)
    /\ rows[i].QuestKey.Id = rows[j].QuestKey.Id
    /\ rows[i].BaseItemTypesKey.Id = rows[j].BaseItemTypesKey.Id
    /\ rows[i].Key0 = rows[j].Key0
    /\ rows[i].CharactersKey # NoneV /\ rows[j].CharactersKey # NoneV
    /\ rows[i].CharactersKey # rows[j].CharactersKey

RecordsOfKey(key) == {g \in 1..Len(compress) : compress[g].k = key}
Handed(record) == \E n \in 1..Len(outdata) : outdata[n] = record

\* C6 as stated: such rows give one record whose 'classes' is the class
\* names joined by the unit separator, and when the names are the whole class
\* universe the records handed to the serializer have no 'classes'.
C6_UniversePruned ==
    pc = "done" =>
        \A i, j \in 1..Len(rows) :
            SameRewardTwoClasses(i, j) =>
                /\ Cardinality(RecordsOfKey(KeyOfRow(i))) = 1
                /\ \A g \in RecordsOfKey(KeyOfRow(i)) :
                      /\ Handed(compress[g].v)
                      /\ IF ToSet(ClassNamesFrom(1, KeyOfRow(i))) = UniverseNames
                         THEN ~Has(compress[g].v, "classes")
                         ELSE /\ Has(compress[g].v, "classes")
                              /\ Get(compress[g].v, "classes").s
                                    = JoinWith(<<31>>, ClassNamesFrom(1, KeyOfRow(i)))

\* C6 amended: such rows give one record, handed to the serializer, whose
\* 'classes' is the class names of its rows in table order joined by the unit
\* separator; the field stays also when the names are the whole class
\* universe (the quest-reward export has no classes pass).
C6_QuestClassesJoined ==
    pc = "done" =>
        \A i, j \in 1..Len(rows) :
            SameRewardTwoClasses(i, j) =>
                /\ Cardinality(RecordsOfKey(KeyOfRow(i))) = 1
                /\ \A g \in RecordsOfKey(KeyOfRow(i)) :
                      /\ Handed(compress[g].v)
                      /\ Has(compress[g].v, "classes")
                      /\ Get(compress[g].v, "classes").s
                            = JoinWith(<<31>>, ClassNamesFrom(1, KeyOfRow(i)))

C6_Witness ==
    /\ pc = "done"
    /\ \E i, j \in 1..Len(rows) :
          /\ SameRewardTwoClasses(i, j)
          /\ ToSet(ClassNamesFrom(1, KeyOfRow(i))) = UniverseNames
          /\ \A g \in RecordsOfKey(KeyOfRow(i)) : Has(compress[g].v, "classes")

----------------------------------------------------------------------------
(* Claims about the rows the reward exports leave out, and their warnings. *)

\* a warning was reported for row i of the table (the rows are counted from 0
\* in rowid)
Warned(i) == \E w \in 1..Len(warnings) : warnings[w].rowid = i - 1

\* the export raised while it processed row i
RaisedAt(i) == pc = "raised" /\ i = Len(rows)

\* row i of QuestRewards.dat lacks an input of its identity key
QuestInputMissing(i) ==
    rows[i].BaseItemTypesKey = NoneV \/ rows[i].QuestKey = NoneV

\* C12 as stated, for the quest-reward export: a row without an item
\* reference or without a quest reference gets a warning, does not make the
\* export raise, and no record is stored for it (every stored record comes
\* from a row that has an item and a named quest).
C12_MissingInputsWarned ==
    /\ \A i \in 1..Len(rows) :
          QuestInputMissing(i) => Warned(i) /\ ~RaisedAt(i)
    /\ Len(compress) <= Cardinality({i \in 1..Len(rows) : Filed(i)})

\* the vendor-reward export does as C12 says: a row with no quest or with no
\* items is warned about and raises nothing
VendorMissingWarned ==
    \A i \in 1..Len(rows) :
        (QuestsOf(rows[i]) = << >> \/ rows[i].BaseItemTypesKeys = << >>) =>
            Warned(i) /\ ~RaisedAt(i)

\* row i is a unique item: its class takes a rarity and its RarityKey is ANY
UniqueRow(i) ==
    /\ rows[i].BaseItemTypesKey.ItemClassesKey.Id \notin NoRarityClasses
    /\ rows[i].RarityKey = "ANY"

\* row i of QuestRewards.dat meets a non-fatal condition: no correction table
\* for the active language, or a unique item absent from the table
MeetsNonFatal(i) ==
    /\ Filed(i)
    /\ \/ ~HasTwoStoneMap(language)
       \/ UniqueRow(i) /\ ~HasItemMap(language)
       \/ UniqueRow(i) /\ ~Has(ItemMapEnglish, rows[i].Key0)

\* row i is the first filed row of its identity key
FirstOfKey(i) ==
    /\ Filed(i)
    /\ \A h \in 1..(i - 1) : Filed(h) => KeyOfRow(h) # KeyOfRow(i)

\* C13 as stated, for the quest-reward export: a row that meets a non-fatal
\* condition gets a warning and does not make the export raise (the later
\* rows are still read), and where the active language has no correction
\* table the record of the row carries the uncorrected item name.
C13_NonFatalNeverAborts ==
    \A i \in 1..Len(rows) :
        MeetsNonFatal(i) =>
            /\ Warned(i)
            /\ ~RaisedAt(i)
            /\ (FirstOfKey(i) /\ ~HasTwoStoneMap(language) /\ ~HasItemMap(language)) =>
                  /\ Has(compress, KeyOfRow(i))
                  /\ Get(Get(compress, KeyOfRow(i)), "reward")
                        = TextV(QuestItemName(rows[i]))

\* the merge of the quest-reward export keeps its records as the merge of the
\* vendor-reward export does (C14): a step leaves every record under its
\* key, at its position, with every field but 'classes' as it was
QuestMergeKeepsRecords ==
    [][\A g \in 1..Len(compress) :
          /\ g <= Len(compress')
          /\ compress'[g].k = compress[g].k
          /\ WithoutClasses(compress'[g].v) = WithoutClasses(compress[g].v)]_vars

----------------------------------------------------------------------------
(* Claims about the identity key of the quest-reward export.               *)

\* the key line 564 builds for row i
BuiltKey(i) == QuestKey(rows[i].QuestKey, rows[i].BaseItemTypesKey, rows[i])

\* rows i < j were folded into one merge group: both were filed, under the
\* same key, and the later one was merged without a raise
Folded(i, j) ==
    /\ i < j /\ Filed(i) /\ Filed(j)
    /\ ~RaisedAt(j)
    /\ BuiltKey(i) = BuiltKey(j)

\* C16 as stated, for the quest-reward export: two rows folded into one
\* merge group have the same quest id, the same item id and the same variant
\* discriminator (Key0).
C16_FoldedOnlyIfEqual ==
    \A i, j \in 1..Len(rows) :
        Folded(i, j) =>
            /\ rows[i].QuestKey.Id = rows[j].QuestKey.Id
            /\ rows[i].BaseItemTypesKey.Id = rows[j].BaseItemTypesKey.Id
            /\ rows[i].Key0 = rows[j].Key0

----------------------------------------------------------------------------
(* Claims about the record the quest-reward export builds for a row.       *)

\* what the export does with row i when no row stands before it in the table
RowAlone(i) == QuestStep(<< >>, Unbound, language, rows[i], i - 1)

\* C17 as stated: the record built for a filed row is the record the export
\* builds for that row with every earlier row removed, and building it does
\* not fail: the row alone does not raise, and the record stored for the
\* first row of a key has, 'classes' aside, the fields of the record of the
\* row alone.
C17_RecordOfRowAlone ==
    \A i \in 1..Len(rows) :
        Filed(i) =>
            /\ ~RowAlone(i).raised
            /\ (FirstOfKey(i) /\ ~RaisedAt(i)) =>
                  /\ Has(compress, BuiltKey(i))
                  /\ WithoutClasses(Get(compress, BuiltKey(i)))
                        = WithoutClasses(RowAlone(i).compress[1].v)
====
